---- MODULE Spec2Model ----
\* A model of wandb_notino_sync.py: the configuration loader, the row
\* processor (filter + map), the writer, one sync cycle (main) and the
\* scheduler loop that re-runs it.
EXTENDS Integers, Sequences, FiniteSets, TLC

\* ---------------------------------------------------------------- bounds
MaxRuns == 3
MaxHeaders == 4
\* The rows one databases.query call returns (one page of the destination).
PageSize == 2
\* No sync cycle starts once the destination holds this many rows.
MaxRows == 4
\* The largest --schedule_time tried, in minutes, and the end of the clock.
MaxScheduleTime == 2
MaxTime == 250

\* ------------------------------------------------------ program constants
\* final_headers[3:] : the headers beyond the first three are looked up.
FixedPrefix == 3
\* time.sleep(1) after a poll, time.sleep(60) after an error, and the seconds
\* of the unit of schedule.every(n).minutes.
PollSleep == 1
ErrorSleep == 60
SecondsPerMinute == 60

VARIABLES
    runs,        \* the remote run list api.runs(...) yields, in fetch order
    headers,     \* config['FIXED_HEADERS']
    user_name,   \* args.user_name
    existing,    \* existing_run_ids handed to process_runs
    mapped,      \* what the last process_runs call did
    cfgFile,     \* the file at args.config_path
    session,     \* wandb.run, the process-global active run
    loaded,      \* what the last load_config call did
    dest,        \* the rows of the destination database, in query order
    tick,        \* what the last sync cycle (main) did
    pc,          \* where the scheduler loop is
    now,         \* the clock, in seconds since the job was scheduled
    next_run,    \* the job's next_run, as the schedule library keeps it
    schedule_time,   \* args.schedule_time, in minutes
    hist         \* when the last two sync cycles started and how they ended

varsEnv == <<runs, headers, user_name>>
varsMap == <<existing, mapped>>
varsCfg == <<cfgFile, session, loaded>>
varsDest == <<dest, tick>>
varsSched == <<pc, now, next_run, schedule_time, hist>>
vars == <<runs, headers, user_name, existing, mapped, cfgFile, session, loaded,
          dest, tick, pc, now, next_run, schedule_time, hist>>

\* ------------------------------------------------------------ data model
UserNames == {"alice", "bob"}
RunStates == {"finished", "running", "failed"}

\* Where reading a run raises: "state", "id", "owner" are the attribute reads
\* of the filter (run.state, run.id, run.user.name); "build" is an error while
\* the row is built inside the try block.
Faults == {"none", "state", "id", "owner", "build"}

RunId(i) == "r" \o ToString(i)

\* A value of a run's config or summary map: a number or a string.
Num(n) == [t |-> "num", n |-> n, s |-> ""]
Txt(s) == [t |-> "str", n |-> 0, s |-> s]

NoMap == [k \in {} |-> Num(0)]

Put(f, k, v) == [x \in (DOMAIN f) \union {k} |-> IF x = k THEN v ELSE f[x]]

Min(a, b) == IF a < b THEN a ELSE b

Range(s) == {s[i] : i \in DOMAIN s}

\* str(value)
Str(v) == IF v.t = "num" THEN ToString(v.n) ELSE v.s

\* datetime.fromtimestamp(n).strftime("%Y-%m-%d %H:%M:%S"), for the first
\* minute of the epoch in UTC.
FormatTs(n) ==
    IF n < 10 THEN "1970-01-01 00:00:0" \o ToString(n)
    ELSE "1970-01-01 00:00:" \o ToString(n)

get_timestamp(run) ==
    IF "_timestamp" \in DOMAIN run.summary
    THEN IF run.summary["_timestamp"].t = "num"
         THEN FormatTs(run.summary["_timestamp"].n)
         ELSE ""                       \* fromtimestamp raises: except -> ""
    ELSE ""

\* get_run_value with the two maps consulted in the other order.
get_run_value_summary_first(run, key) ==
    IF key \in DOMAIN run.summary THEN Str(run.summary[key])
    ELSE IF key \in DOMAIN run.config THEN Str(run.config[key])
    ELSE ""

get_run_value(run, key) ==
    IF key \in DOMAIN run.config THEN Str(run.config[key])
    ELSE IF key \in DOMAIN run.summary THEN Str(run.summary[key])
    ELSE ""

\* One destination property.
Title(value) == [kind |-> "title", content |-> value]
Date(value) == [kind |-> "date", content |-> value]
RichText(value) == [kind |-> "rich_text", content |-> value]

NoProps == [k \in {} |-> Title("")]

\* The body of the zip loop of create_notion_properties, for one pair.
SetProperty(properties, header, value) ==
    IF header = "Run ID" THEN Put(properties, "Name", Title(value))
    ELSE IF header = "Timestamp"
         THEN IF value # "" THEN Put(properties, header, Date(value))
              ELSE properties
    ELSE Put(properties, header, RichText(value))

RECURSIVE PropertiesFrom(_, _, _, _)
PropertiesFrom(run_data, hs, i, properties) ==
    IF i > Min(Len(hs), Len(run_data)) THEN properties
    ELSE PropertiesFrom(run_data, hs, i + 1,
                        SetProperty(properties, hs[i], run_data[i]))

create_notion_properties(run_data, hs) ==
    PropertiesFrom(run_data, hs, 1, NoProps)

\* final_headers[3:]
ExtraHeaders(final_headers) ==
    IF Len(final_headers) > FixedPrefix
    THEN SubSeq(final_headers, FixedPrefix + 1, Len(final_headers))
    ELSE <<>>

\* row_data of process_runs.
RowData(run, final_headers) ==
    <<run.id, get_timestamp(run), run.owner>>
    \o [j \in 1..Len(ExtraHeaders(final_headers)) |->
            get_run_value(run, ExtraHeaders(final_headers)[j])]

\* The three tests of the filter of process_runs, each on a run whose
\* attribute can be read.
IsFinished(run) == run.state = "finished"

IsNew(run, existing_run_ids) == run.id \notin Range(existing_run_ids)

\* The owner test left out.
IsOwnedBy_anyone(run, name) == TRUE

IsOwnedBy(run, name) == run.owner = name

\* Whether an exception raised while run i is handled leaves process_runs:
\* the try block covers the building of the row only.
Escapes(fault) == fault \in {"state", "id", "owner"}

\* The for loop of process_runs from run i on. acc.raised: an exception left
\* the function; acc.pages: pages_to_create; acc.logged: the indexes of the
\* runs whose error was caught and logged.
RECURSIVE RunsFrom(_, _, _, _, _, _)
RunsFrom(rs, i, existing_run_ids, final_headers, name, acc) ==
    IF i > Len(rs) THEN acc
    ELSE LET run == rs[i]
             skip == RunsFrom(rs, i + 1, existing_run_ids, final_headers, name, acc)
             raise(f) == IF Escapes(f) THEN [acc EXCEPT !.raised = TRUE]
                         ELSE RunsFrom(rs, i + 1, existing_run_ids, final_headers,
                                       name, [acc EXCEPT !.logged = @ \union {i}])
         IN
         IF run.fault = "state" THEN raise("state")
         ELSE IF ~IsFinished(run) THEN skip
         ELSE IF run.fault = "id" THEN raise("id")
         ELSE IF ~IsNew(run, existing_run_ids) THEN skip
         ELSE IF run.fault = "owner" THEN raise("owner")
         ELSE IF ~IsOwnedBy(run, name) THEN skip
         ELSE IF run.fault = "build" THEN raise("build")
         ELSE RunsFrom(rs, i + 1, existing_run_ids, final_headers, name,
                       [acc EXCEPT !.pages = Append(@,
                           create_notion_properties(RowData(run, final_headers),
                                                    final_headers))])

process_runs(rs, existing_run_ids, final_headers, name) ==
    RunsFrom(rs, 1, existing_run_ids, final_headers, name,
             [raised |-> FALSE, pages |-> <<>>, logged |-> {}])

\* -------------------------------------------------- configuration loader
\* The file at config_path: absent, not JSON, or a JSON document. A document
\* is a JSON value of some type; "members" is what the in operator finds in
\* it: the keys of an object, the elements of an array, the substrings of a
\* string (among the names the loader asks for).
AbsentFile == [state |-> "absent", type |-> "none", members |-> {}, hdrs |-> <<>>]
InvalidFile == [state |-> "invalid", type |-> "none", members |-> {}, hdrs |-> <<>>]
JsonFile(type, members, hs) ==
    [state |-> "json", type |-> type, members |-> members, hdrs |-> hs]

required_keys == <<"NOTION_TOKEN", "FIXED_HEADERS">>

\* wandb.run: None, or a run with its entity and project names.
NoSession == [active |-> FALSE, entity |-> "", project |-> ""]
ActiveSession(entity, project) ==
    [active |-> TRUE, entity |-> entity, project |-> project]

Raised(kind) ==
    [error |-> kind, TEAM_NAME |-> "", PROJECT_NAME |-> "", FIXED_HEADERS |-> <<>>]

get_wandb_project_info(sess) ==
    IF ~sess.active THEN Raised("ConfigError")
    ELSE IF sess.project = "" \/ sess.entity = "" THEN Raised("ConfigError")
    ELSE [error |-> "none", TEAM_NAME |-> sess.entity,
          PROJECT_NAME |-> sess.project, FIXED_HEADERS |-> <<>>]

\* "key not in config" raises TypeError on a value that is no container.
SupportsIn(file) == file.type \in {"object", "array", "string"}

\* config['TEAM_NAME'] = ... raises TypeError on anything but an object.
SupportsItemAssignment(file) == file.type = "object"

load_config(file, sess) ==
    IF file.state = "absent" THEN Raised("ConfigError")
    ELSE IF file.state = "invalid" THEN Raised("ConfigError")
    ELSE IF ~SupportsIn(file) THEN Raised("TypeError")
    ELSE IF \E i \in DOMAIN required_keys : required_keys[i] \notin file.members
    THEN Raised("ConfigError")
    ELSE LET info == get_wandb_project_info(sess) IN
         IF info.error # "none" THEN Raised("ConfigError")
         ELSE IF ~SupportsItemAssignment(file) THEN Raised("TypeError")
         ELSE [error |-> "none", TEAM_NAME |-> info.TEAM_NAME,
               PROJECT_NAME |-> info.PROJECT_NAME, FIXED_HEADERS |-> file.hdrs]

\* ------------------------------------------ destination, writer, main
\* The row the destination keeps for notion.pages.create(properties=p): its
\* title is the title property written under "Name", and is empty when the
\* property-set writes none.
StoredPage(p) ==
    [title |-> IF "Name" \in DOMAIN p /\ p["Name"].kind = "title"
               THEN <<p["Name"].content>> ELSE <<>>,
     properties |-> p]

\* query["results"] of the one databases.query call: the first page of rows.
QueryResults(d) == SubSeq(d, 1, Min(Len(d), PageSize))

RECURSIVE TitlesFrom(_, _, _)
TitlesFrom(results, i, acc) ==
    IF i > Len(results) THEN acc
    ELSE TitlesFrom(results, i + 1,
                    IF results[i].title # <<>>
                    THEN Append(acc, results[i].title[1]) ELSE acc)

get_existing_run_ids(d, queryOk) ==
    IF ~queryOk THEN [error |-> "NotionError", ids |-> <<>>]
    ELSE [error |-> "none", ids |-> TitlesFrom(QueryResults(d), 1, <<>>)]

\* A writer that catches the failure per page and goes on with the next one.
RECURSIVE SyncFrom(_, _, _, _)

\* A writer that catches the failure per page and goes on with the next one.
AfterFailedCreate_continues(d, pages, i, failAt) ==
    SyncFrom(d, pages, i + 1, failAt)

\* What sync_data does once create call i has raised: the exception leaves
\* the for loop, and is re-raised as NotionError.
AfterFailedCreate(d, pages, i, failAt) ==
    [dest |-> d, calls |-> i, error |-> "NotionError"]

\* The for loop of sync_data from page i on; create call failAt raises
\* (0: none does). calls counts the create calls made.
SyncFrom(d, pages, i, failAt) ==
    IF i > Len(pages) THEN [dest |-> d, calls |-> i - 1, error |-> "none"]
    ELSE IF i = failAt THEN AfterFailedCreate(d, pages, i, failAt)
    ELSE SyncFrom(Append(d, StoredPage(pages[i])), pages, i + 1, failAt)

\* A writer that rebuilds the destination from the batch instead of appending.
sync_data_replacing(d, pages, failAt) == SyncFrom(<<>>, pages, 1, failAt)

sync_data(d, pages, failAt) == SyncFrom(d, pages, 1, failAt)

init_notion(probeOk) == IF probeOk THEN "none" ELSE "NotionError"

\* What main leaves behind: the destination, the error it re-raises ("none":
\* it returns), the step that raised, new_pages and the create calls made.
Outcome(d, error, stage, pages, calls) ==
    [dest |-> d, error |-> error, stage |-> stage, pages |-> pages,
     calls |-> calls]

\* One sync cycle. in: the file and session the loader finds, whether the
\* existence probe and the query succeed, and which create call fails.
main(in, rs, d, name) ==
    LET config == load_config(in.file, in.session) IN
    IF config.error # "none"
    THEN Outcome(d, config.error, "load_config", <<>>, 0)
    ELSE IF init_notion(in.probeOk) # "none"
    THEN Outcome(d, "NotionError", "init_notion", <<>>, 0)
    ELSE LET read == get_existing_run_ids(d, in.queryOk) IN
    IF read.error # "none"
    THEN Outcome(d, "NotionError", "get_existing_run_ids", <<>>, 0)
    ELSE LET new == process_runs(rs, read.ids, config.FIXED_HEADERS, name) IN
    IF new.raised
    THEN Outcome(d, "Exception", "process_runs", <<>>, 0)
    ELSE IF new.pages = <<>>
    THEN Outcome(d, "none", "done", <<>>, 0)
    ELSE LET sync == sync_data(d, new.pages, in.failAt) IN
         Outcome(sync.dest, sync.error,
                 IF sync.error = "none" THEN "done" ELSE "sync_data",
                 new.pages, sync.calls)

\* A sync cycle that would meet no failure, cut short by KeyboardInterrupt
\* when the destination holds m rows: the handlers of sync_data and main
\* catch Exception only, so the interrupt passes them and nothing is undone.
main_interrupted(in, rs, d, name, m) ==
    LET o == main(in, rs, d, name) IN
    Outcome(SubSeq(o.dest, 1, m), "KeyboardInterrupt", "interrupted",
            o.pages, m - Len(d))

\* ------------------------------------------- the row processor on its own
\* process_runs applied to bounded inputs: batches of runs of every state and
\* owner with at most one run that raises, and single runs of every data
\* shape under every header list.
HeaderNames == {"Run ID", "Timestamp", "User", "lr", "Name"}

HeaderLists == UNION {[1..n -> HeaderNames] : n \in 0..MaxHeaders}

ConventionalHeaders == <<"Run ID", "Timestamp", "User", "lr">>

Configs == {NoMap, Put(NoMap, "lr", Num(1))}

Summaries ==
    {Put(m, "_timestamp", v) : m \in {NoMap, Put(NoMap, "lr", Txt("b"))},
                               v \in {Num(0), Num(17), Txt("never")}}
    \union {NoMap, Put(NoMap, "lr", Txt("b"))}

DefaultConfig == Put(NoMap, "lr", Num(1))
DefaultSummary == Put(NoMap, "_timestamp", Num(0))

Run(i, state, owner, fault, config, summary) ==
    [id |-> RunId(i), state |-> state, owner |-> owner, fault |-> fault,
     config |-> config, summary |-> summary]

\* The identifiers of S, in run order, as the list the reader returns.
IdList(n, S) == SelectSeq([i \in 1..n |-> RunId(i)], LAMBDA x : x \in S)

NotMapped == [done |-> FALSE, raised |-> FALSE, pages |-> <<>>, logged |-> {}]

NotLoaded == [done |-> FALSE, error |-> "none", TEAM_NAME |-> "",
              PROJECT_NAME |-> "", FIXED_HEADERS |-> <<>>]

NoTick == [ran |-> FALSE, error |-> "none", stage |-> "none", pages |-> <<>>,
           calls |-> 0, failAt |-> 0, before |-> <<>>, afterOk |-> FALSE]

\* The parts of the state a specification does not exercise.
IdleMap == existing = <<>> /\ mapped = NotMapped
IdleCfg == cfgFile = AbsentFile /\ session = NoSession /\ loaded = NotLoaded
IdleDest == dest = <<>> /\ tick = NoTick
NoHist == [at |-> -1, ok |-> FALSE, prevAt |-> -1, prevOk |-> FALSE]
IdleSched ==
    /\ pc = "off" /\ now = 0 /\ next_run = 0 /\ schedule_time = 0
    /\ hist = NoHist

InitBatch ==
    \E n \in 0..MaxRuns :
      \E so \in [1..n -> RunStates \X UserNames], f \in Faults \ {"none"},
         at \in 0..n, S \in SUBSET {RunId(i) : i \in 1..n} :
        /\ runs = [i \in 1..n |->
                     Run(i, so[i][1], so[i][2], IF i = at THEN f ELSE "none",
                         DefaultConfig, DefaultSummary)]
        /\ existing = IdList(n, S)
        /\ headers = ConventionalHeaders
        /\ user_name = "alice"
        /\ mapped = NotMapped

InitRow ==
    \E hs \in HeaderLists, c \in Configs, s \in Summaries :
        /\ runs = <<Run(1, "finished", "alice", "none", c, s)>>
        /\ existing = <<>>
        /\ headers = hs
        /\ user_name = "alice"
        /\ mapped = NotMapped

InitMap == (InitBatch \/ InitRow) /\ IdleCfg /\ IdleDest /\ IdleSched

ProcessRuns ==
    /\ ~mapped.done
    /\ LET r == process_runs(runs, existing, headers, user_name) IN
         mapped' = [done |-> TRUE, raised |-> r.raised, pages |-> r.pages,
                    logged |-> r.logged]
    /\ UNCHANGED <<varsEnv, existing, varsCfg, varsDest, varsSched>>

NextMap == ProcessRuns

SpecMap == InitMap /\ [][NextMap]_vars

\* ---------------------------------------- the configuration loader on its own
\* load_config applied to every kind of file and of session.
JsonFiles ==
    {JsonFile("object", m, ConventionalHeaders) :
        m \in SUBSET {"NOTION_TOKEN", "FIXED_HEADERS", "TEAM_NAME"}}
    \union {JsonFile(t, m, <<>>) : t \in {"array", "string"},
                                  m \in SUBSET {"NOTION_TOKEN", "FIXED_HEADERS"}}
    \union {JsonFile(t, {}, <<>>) : t \in {"number", "null"}}

Files == {AbsentFile, InvalidFile} \union JsonFiles

Sessions ==
    {NoSession} \union {ActiveSession(e, q) : e \in {"", "team"}, q \in {"", "proj"}}

InitCfg ==
    /\ cfgFile \in Files
    /\ session \in Sessions
    /\ loaded = NotLoaded
    /\ runs = <<>> /\ headers = <<>> /\ user_name = "alice"
    /\ IdleMap /\ IdleDest /\ IdleSched

LoadConfig ==
    /\ ~loaded.done
    /\ LET c == load_config(cfgFile, session) IN
         loaded' = [done |-> TRUE, error |-> c.error, TEAM_NAME |-> c.TEAM_NAME,
                    PROJECT_NAME |-> c.PROJECT_NAME,
                    FIXED_HEADERS |-> c.FIXED_HEADERS]
    /\ UNCHANGED <<varsEnv, varsMap, cfgFile, session, varsDest, varsSched>>

NextCfg == LoadConfig

SpecCfg == InitCfg /\ [][NextCfg]_vars

\* ------------------------------------------------------- the sync cycles
\* main run again and again on a fixed remote run list, header list and
\* target user; each cycle meets any mix of failures.
GoodFile(hs) == JsonFile("object", {"NOTION_TOKEN", "FIXED_HEADERS"}, hs)
GoodSession == ActiveSession("team", "proj")

TickInputs(hs) ==
    [file : {GoodFile(hs), AbsentFile}, session : {GoodSession, NoSession},
     probeOk : BOOLEAN, queryOk : BOOLEAN, failAt : 0..MaxRuns]

\* The inputs of a cycle in which nothing fails.
AllWell(hs) ==
    [file |-> GoodFile(hs), session |-> GoodSession, probeOk |-> TRUE,
     queryOk |-> TRUE, failAt |-> 0]

SyncRunKinds ==
    {<<"finished", "alice">>, <<"running", "alice">>, <<"finished", "bob">>}

SyncHeaderLists ==
    {ConventionalHeaders, <<"Timestamp", "Run ID", "User">>,
     <<"ID", "Timestamp", "User">>}

\* The record of a cycle that started on destination d after previous cycle
\* prev, met inputs in and left outcome o.
TickRecord(prev, d, in, o) ==
    [ran |-> TRUE, error |-> o.error, stage |-> o.stage, pages |-> o.pages,
     calls |-> o.calls,
     failAt |-> IF o.pages # <<>> /\ in.failAt <= Len(o.pages)
                THEN in.failAt ELSE 0,
     before |-> d,
     afterOk |-> prev.ran /\ prev.error = "none"]

InitSync ==
    /\ \E n \in 0..MaxRuns :
         \E so \in [1..n -> SyncRunKinds], f \in {"none", "owner"} :
           runs = [i \in 1..n |->
                     Run(i, so[i][1], so[i][2], IF i = n THEN f ELSE "none",
                         DefaultConfig, DefaultSummary)]
    /\ headers \in SyncHeaderLists
    /\ user_name = "alice"
    /\ IdleMap /\ IdleCfg /\ IdleDest /\ IdleSched

Tick ==
    /\ Len(dest) < MaxRows
    /\ \E in \in TickInputs(headers) :
         LET o == main(in, runs, dest, user_name) IN
           /\ dest' = o.dest
           /\ tick' = TickRecord(tick, dest, in, o)
    /\ UNCHANGED <<varsEnv, varsMap, varsCfg, varsSched>>

\* A cycle stopped by the interrupt signal part-way.
InterruptedTick ==
    /\ Len(dest) < MaxRows
    /\ LET in == AllWell(headers)
           o == main(in, runs, dest, user_name) IN
         \E m \in Len(dest)..Len(o.dest) :
           LET cut == main_interrupted(in, runs, dest, user_name, m) IN
             /\ dest' = cut.dest
             /\ tick' = TickRecord(tick, dest, in, cut)
    /\ UNCHANGED <<varsEnv, varsMap, varsCfg, varsSched>>

Next == Tick \/ InterruptedTick

Spec == InitSync /\ [][Next]_vars

\* ------------------------------------------------------ scheduler loop
\* schedule.every(schedule_time).minutes.do(main), then the while loop:
\* run_pending, sleep 1; on an Exception log and sleep 60; on
\* KeyboardInterrupt log and break.
Interval(minutes) == minutes * SecondsPerMinute

\* should_run of the schedule library: the job is due.
Due == now >= next_run

\* A library that reschedules the job whether or not job_func raised.
NextRunAfter_rescheduling(error, t, old, minutes) == t + Interval(minutes)

\* next_run once the job has been run at time t: the library sets last_run
\* and schedules the next run after job_func returns, and does neither when
\* job_func raises.
NextRunAfter(error, t, old, minutes) ==
    IF error = "none" THEN t + Interval(minutes) ELSE old

\* Where the loop goes when run_pending ends with error (main re-raises what
\* it catches): the except Exception clause sleeps 60.
AfterRunPending(error) == IF error = "none" THEN "sleep" ELSE "error_sleep"

\* Where an interrupt (KeyboardInterrupt) takes the loop: the except
\* KeyboardInterrupt clause covers the try body; the sleep of the except
\* Exception clause is outside it.
AfterInterrupt(at) == IF at = "error_sleep" THEN "crashed" ELSE "stopped"

SchedRuns == <<Run(1, "finished", "alice", "none", DefaultConfig, DefaultSummary),
               Run(2, "finished", "alice", "none", DefaultConfig, DefaultSummary)>>

InitSched ==
    /\ schedule_time \in 1..MaxScheduleTime
    /\ pc = "run_pending" /\ now = 0
    /\ next_run = Interval(schedule_time)
    /\ hist = NoHist
    /\ runs = SchedRuns /\ headers = ConventionalHeaders /\ user_name = "alice"
    /\ IdleMap /\ IdleCfg /\ IdleDest

\* run_pending with no job due, then on to time.sleep(1).
RunPendingIdle ==
    /\ pc = "run_pending" /\ ~Due
    /\ pc' = "sleep"
    /\ UNCHANGED <<varsEnv, varsMap, varsCfg, varsDest, now, next_run,
                   schedule_time, hist>>

\* run_pending with the job due: one sync cycle.
RunPendingDue ==
    /\ pc = "run_pending" /\ Due
    /\ \E in \in TickInputs(headers) :
         LET o == main(in, runs, dest, user_name) IN
           /\ dest' = o.dest
           /\ tick' = TickRecord(tick, dest, in, o)
           /\ next_run' = NextRunAfter(o.error, now, next_run, schedule_time)
           /\ pc' = AfterRunPending(o.error)
           /\ hist' = [at |-> now, ok |-> o.error = "none",
                       prevAt |-> hist.at, prevOk |-> hist.ok]
    /\ UNCHANGED <<varsEnv, varsMap, varsCfg, now, schedule_time>>

Sleep ==
    /\ pc = "sleep" /\ now + PollSleep <= MaxTime
    /\ now' = now + PollSleep
    /\ pc' = "run_pending"
    /\ UNCHANGED <<varsEnv, varsMap, varsCfg, varsDest, next_run,
                   schedule_time, hist>>

SleepAfterError ==
    /\ pc = "error_sleep" /\ now + ErrorSleep <= MaxTime
    /\ now' = now + ErrorSleep
    /\ pc' = "run_pending"
    /\ UNCHANGED <<varsEnv, varsMap, varsCfg, varsDest, next_run,
                   schedule_time, hist>>

\* The interrupt signal during one of the two sleeps.
InterruptSleep ==
    /\ pc \in {"sleep", "error_sleep"}
    /\ pc' = AfterInterrupt(pc)
    /\ UNCHANGED <<varsEnv, varsMap, varsCfg, varsDest, now, next_run,
                   schedule_time, hist>>

\* The interrupt signal in the middle of a sync cycle: KeyboardInterrupt is no
\* Exception, so it passes the handlers of sync_data and main and reaches the
\* loop; the rows created so far stay.
InterruptCycle ==
    /\ pc = "run_pending" /\ Due
    /\ LET in == AllWell(headers)
           o == main(in, runs, dest, user_name) IN
         \E m \in Len(dest)..Len(o.dest) :
           LET cut == main_interrupted(in, runs, dest, user_name, m) IN
             /\ dest' = cut.dest
             /\ tick' = TickRecord(tick, dest, in, cut)
    /\ pc' = AfterInterrupt(pc)
    /\ UNCHANGED <<varsEnv, varsMap, varsCfg, now, next_run, schedule_time, hist>>

NextSched ==
    \/ RunPendingIdle
    \/ RunPendingDue
    \/ Sleep
    \/ SleepAfterError
    \/ InterruptSleep
    \/ InterruptCycle

SpecSched == InitSched /\ [][NextSched]_vars

\* ------------------------------------------------ claims on the processor
\* The three conditions of the filter, on the inputs of the call.
Qualifies(run) ==
    /\ run.state = "finished"
    /\ run.id \notin Range(existing)
    /\ run.owner = user_name

BuildsNormally(run) == Qualifies(run) /\ run.fault # "build"

Unfaulted(run) == Qualifies(run) /\ run.fault = "none"

\* The property-set of one run under the configured headers.
PageOf(run) == create_notion_properties(RowData(run, headers), headers)

PagesAre(qs) ==
    /\ Len(mapped.pages) = Len(qs)
    /\ \A j \in DOMAIN qs : mapped.pages[j] = PageOf(qs[j])

\* C4 (as claimed): whatever point of a run's handling raises (reading its
\* state, identifier or owner, or building its row), process_runs still
\* returns, with the pages of every other qualifying run in order: only the
\* run that raised is skipped.
C4_PartialBatchResilience ==
    mapped.done =>
        /\ ~mapped.raised
        /\ PagesAre(SelectSeq(runs, Unfaulted))

\* C5: when process_runs returns, pages_to_create holds exactly one
\* property-set per run that is finished, not yet synced and owned by the
\* target user, in fetch order, and none for any other run (a qualifying run
\* whose row building raises is skipped, which is the error path of C4).
C5_FilterInOrder ==
    (mapped.done /\ ~mapped.raised) =>
        PagesAre(SelectSeq(runs, BuildsNormally))

C5_Witness ==
    /\ mapped.done /\ ~mapped.raised
    /\ Len(runs) = 3 /\ Len(mapped.pages) = 2
    /\ \A i \in DOMAIN runs : runs[i].fault = "none"
    /\ \E i \in DOMAIN runs :
          runs[i].owner = "alice" /\ runs[i].state \in {"running", "failed"}
          /\ runs[i].id \notin Range(existing)

\* The value the claim gives a header beyond the first three.
LookedUp(run, h) ==
    IF h \in DOMAIN run.config THEN Str(run.config[h])
    ELSE IF h \in DOMAIN run.summary THEN Str(run.summary[h])
    ELSE ""

\* What C8 says of header i of the list, for the page p made from run.
HeaderMapped(run, p, i) ==
    LET h == headers[i] IN
    IF h = "Run ID"
    THEN "Name" \in DOMAIN p /\ p["Name"] = Title(run.id)
    ELSE IF h = "Timestamp"
    THEN /\ (h \in DOMAIN p) <=> (get_timestamp(run) # "")
         /\ (h \in DOMAIN p) => p[h] = Date(get_timestamp(run))
    ELSE /\ h \in DOMAIN p
         /\ p[h].kind = "rich_text"
         /\ i > FixedPrefix => p[h].content = LookedUp(run, h)

AllHeadersMapped ==
    \A j \in DOMAIN mapped.pages :
        \A i \in DOMAIN headers :
            HeaderMapped(SelectSeq(runs, BuildsNormally)[j], mapped.pages[j], i)

\* C8 (as claimed): under every header list, "Run ID" gets the title with the
\* run identifier, "Timestamp" a date iff the formatted timestamp is
\* non-empty, and every other header a text property, holding the config /
\* summary / empty lookup beyond the first three headers.
C8_HeaderMappingAnyList ==
    (mapped.done /\ ~mapped.raised) => AllHeadersMapped

\* "Run ID" only as the first header, "Timestamp" only as the second, and no
\* header named after the title property itself.
PositionalLayout ==
    \A i \in DOMAIN headers :
        /\ headers[i] = "Run ID" => i = 1
        /\ headers[i] = "Timestamp" => i = 2
        /\ headers[i] # "Name"

\* C8 (amended): the same mapping, for the header lists that name "Run ID"
\* only first and "Timestamp" only second and have no header called "Name";
\* values are paired with headers by position, so elsewhere "Run ID" and
\* "Timestamp" receive another position's value, and a later header writing
\* the same property replaces the earlier one.
C8_HeaderMapping ==
    (mapped.done /\ ~mapped.raised /\ PositionalLayout) => AllHeadersMapped

C8_Witness ==
    /\ mapped.done /\ Len(mapped.pages) = 1
    /\ headers = <<"Run ID", "Timestamp", "User", "lr">>
    /\ "lr" \in DOMAIN runs[1].config /\ "lr" \in DOMAIN runs[1].summary
    /\ "Timestamp" \in DOMAIN mapped.pages[1]
    /\ mapped.pages[1]["lr"] = RichText("1")

\* ----------------------------------------------------- claims on the loader
\* The document lacks a required key: an object without it, or a JSON value
\* that has no keys at all.
LacksRequiredKey(file) ==
    \/ file.type # "object"
    \/ \E i \in DOMAIN required_keys : required_keys[i] \notin file.members

MustBeRejected ==
    \/ cfgFile.state \in {"absent", "invalid"}
    \/ LacksRequiredKey(cfgFile)
    \/ ~session.active
    \/ session.entity = "" \/ session.project = ""

\* C9 (as claimed): load_config raises ConfigError, and nothing else, on an
\* absent or unparsable file, a document lacking a required key whatever its
\* JSON type, no active run or an empty resolved name; otherwise it returns
\* the configuration with the resolved team and project names.
C9_LoaderContract ==
    loaded.done =>
        IF MustBeRejected THEN loaded.error = "ConfigError"
        ELSE /\ loaded.error = "none"
             /\ loaded.TEAM_NAME = session.entity /\ loaded.TEAM_NAME # ""
             /\ loaded.PROJECT_NAME = session.project /\ loaded.PROJECT_NAME # ""

\* -------------------------------------------------- claims on the sync cycles
IsPrefix(a, b) == Len(a) <= Len(b) /\ SubSeq(b, 1, Len(a)) = a

RowsTitled(id) == {k \in DOMAIN dest : dest[k].title = <<id>>}

\* C1 (as claimed): after a cycle that returned normally the destination
\* holds at most one row titled with the identifier of any finished run of
\* the target user, whatever the size of the destination.
C1_AtMostOneRow ==
    (tick.ran /\ tick.error = "none") =>
        \A i \in DOMAIN runs :
            (runs[i].state = "finished" /\ runs[i].owner = user_name)
                => Cardinality(RowsTitled(runs[i].id)) <= 1

\* C2 (as claimed): a cycle that follows a cycle that returned normally, on
\* the same remote runs, creates no row, under every header list and every
\* destination size.
C2_IdempotentTick ==
    (tick.ran /\ tick.afterOk) => dest = tick.before

\* C3: when create call i of a batch of k pages raises, the destination is
\* what it was plus the rows of pages 1..i-1, exactly i create calls were
\* made (none for pages i+1..k), and main re-raises a NotionError that came
\* out of sync_data.
C3_WriterAbort ==
    (tick.ran /\ tick.failAt >= 1) =>
        /\ dest = tick.before
                  \o [j \in 1..(tick.failAt - 1) |-> StoredPage(tick.pages[j])]
        /\ tick.calls = tick.failAt
        /\ tick.error = "NotionError"
        /\ tick.stage = "sync_data"

C3_Witness ==
    /\ tick.ran /\ tick.failAt = 2 /\ Len(tick.pages) = 3
    /\ Len(dest) = Len(tick.before) + 1
    /\ tick.before # <<>>

\* The steps of main that precede the writer.
BeforeWriter == {"load_config", "init_notion", "get_existing_run_ids", "process_runs"}

\* C10: every step keeps the rows the destination had, unchanged and in
\* place, and only appends; a cycle that fails before the writer or maps no
\* run leaves the destination as it was.
C10_AppendOnly ==
    [][/\ IsPrefix(dest, dest')
       /\ (tick'.stage \in BeforeWriter \/ tick'.pages = <<>>) => dest' = dest]_vars

C10_Witness ==
    /\ tick.ran /\ tick.before # <<>>
    /\ tick.stage = "sync_data"
    /\ Len(dest) > Len(tick.before)
    /\ IsPrefix(tick.before, dest)

\* ------------------------------------------------ claims on the scheduler
\* C6 (as claimed): a cycle that follows a failed cycle starts no sooner
\* than a full interval after it.
C6_NoEarlyRetry ==
    (hist.prevAt >= 0 /\ ~hist.prevOk)
        => hist.at - hist.prevAt >= Interval(schedule_time)

\* C6 (amended): a failed cycle leaves the job due, so the cycle is run
\* again at the first poll after the 60-unit error sleep, however long the
\* interval is; a full interval passes only after a cycle that returned.
C6_RetryAfterErrorSleep ==
    /\ (hist.prevAt >= 0 /\ ~hist.prevOk) => hist.at - hist.prevAt >= ErrorSleep
    /\ (hist.prevAt >= 0 /\ hist.prevOk)
           => hist.at - hist.prevAt >= Interval(schedule_time)
    /\ (hist.at >= 0 /\ ~hist.ok) => next_run <= hist.at
    /\ (hist.at >= 0 /\ hist.ok) => next_run = hist.at + Interval(schedule_time)

C6_Witness ==
    /\ hist.prevAt >= 0 /\ ~hist.prevOk
    /\ hist.at = hist.prevAt + ErrorSleep
    /\ Interval(schedule_time) > ErrorSleep

\* C7 (as claimed): the loop ends only by the clean stop; it never ends with
\* an exception, neither after a failed cycle nor when the interrupt comes
\* during the poll sleep or the error sleep.
C7_OnlyCleanStop == pc # "crashed"

====
